---- MODULE Spec2Model ----
(***************************************************************************)
(* A model of the ADR generation workflow of adrtfcodesynth.               *)
(*                                                                         *)
(* Part 1 models one run of the graph that ADRWorkflow.create_workflow     *)
(* builds (src/src/workflow.py) over the state schema of src/src/state.py, *)
(* with the node functions of src/src/nodes/*.py.  The graph is executed   *)
(* by LangGraph (graph.compile / graph.ainvoke): execution proceeds in     *)
(* supersteps; the tasks of a superstep run concurrently, each on the      *)
(* state as it was when the superstep began; the dictionaries they return  *)
(* are filtered to the schema keys and folded into the state, channel by   *)
(* channel, with the channel's reducer when every task has finished; a     *)
(* node is scheduled for the next superstep when a node it has an edge     *)
(* from ran in this one; an exception in a task cancels its siblings and   *)
(* is re-raised from ainvoke.  A channel declared Annotated[T, reducer]    *)
(* starts with T(), so every schema key is readable from the first step.   *)
(*                                                                         *)
(* Part 2 models ADR.to_markdown and ADRGenerator.generate                 *)
(* (src/src/agents/adr_generator.py) as operators over texts that are      *)
(* sequences of lines, a line being a sequence of tokens.                  *)
(***************************************************************************)
EXTENDS Integers, Sequences, FiniteSets, TLC

VARIABLES
    \* ---- ADRWorkflow object and process globals
    workflow_impl,      \* who supplies the node callables to create_workflow
    unreadable,         \* the input fields whose file cannot be opened or read
    llm_count,          \* the LLM calls (chain.ainvoke) made so far in the run
    include_terraform,  \* ADRWorkflow.include_terraform
    include_knowledge,  \* ADRWorkflow.include_knowledge
    reuse_context,      \* ADRWorkflow.reuse_context
    project_config,     \* config._project_config: "None" or "loaded"
    missing_branches,   \* nodes.source_code_analyzer_node._missing_branches
    initial_state,      \* the dictionary handed to run()
    \* ---- one run of the compiled graph
    pc,                 \* "created", "running", "returned", "raised"
    channels,           \* the merged workflow state
    tasks,              \* the nodes of the current superstep
    tstate,             \* per node: "idle", "running", "finished", "failed", "cancelled"
    ret,                \* per node: the dictionary it returned last
    assigned,           \* per node: the keys its code assigned in its last run
    merged,             \* nodes whose returned state has been folded into channels
    started,            \* per node: how many times it was invoked
    failed,             \* nodes that raised, with the exception each raised
    error,              \* the exception ainvoke re-raises
    result,             \* what ainvoke returned
    prev,               \* channels as they were before the last merge
    last_tasks,         \* the tasks of the last merged superstep
    writers,            \* per schema key: the nodes whose code has assigned it
    adr_response,       \* the structured response the generate_adrs step received
    \* ---- ADR rendering and generation on their own
    adr,                \* a decision record
    markdown,           \* its rendering
    adr_list,           \* a structured response: a sequence of records
    gen_project,        \* the project_name argument of generate
    adr_files,          \* what generate returned
    gpc,                \* "input" or "done"
    \* ---- SourceCodeExtractor on its own
    archive,            \* the entries of the ZIP archive, in archive order
    archive_opens,      \* whether zipfile.ZipFile(zip_path) can open the archive
    file_outcomes,      \* what reading and summarizing each selected file came to
    max_files,          \* the max_files argument
    max_file_size,      \* the max_file_size argument
    summarize_large_files, \* SourceCodeExtractor.summarize_large_files
    structure,          \* what extract_project_structure returned
    source_code,        \* what extract_source_code returned
    llm_calls,          \* summary_chain.ainvoke calls made, as <<path, outcome>>
    metadata,           \* the extraction metadata a source code step derives
    epc,                \* "idle", "input", "done" or "raised"
    \* ---- config.py and the construction of ADRWorkflow on their own
    provider,           \* the provider argument of LLMFactory.create_llm
    kwargs,             \* its keyword arguments
    constructed,        \* the chat model classes constructed so far
    created_llm,        \* what create_llm came to: a handle or an exception
    fpc,                \* "idle", "input" or "done"
    config_files,       \* the project-config.yaml of each directory on disk
    _project_config,    \* config._project_config
    config_llm,         \* config.llm
    env_provider,       \* LLM_PROVIDER in the environment Settings() reads
    _settings,          \* config._settings
    _llm_config,        \* config._llm_config
    instances,          \* the chat model handles created so far
    config_objects,     \* the LLMConfig objects created so far
    accesses,           \* the uses of LLMConfig.llm and reset_llm by the caller
    loads,              \* the calls of load_project_config made by the caller
    init_args,          \* the arguments ADRWorkflow(...) was called with
    workflow_obj,       \* the ADRWorkflow object, None until constructed
    cpc,                \* "idle", "ready", "constructed", "created", "raised"
    \* ---- the source code steps over the runs of one process
    runs,               \* the runs started so far in the process, 0 when idle
    run_state,          \* the state the source code steps of the run are given
    run_done,           \* the branches whose source code step ran in the run
    both_missing_logged \* the run logged that both branches are missing

wfvars == <<workflow_impl, unreadable, llm_count, include_terraform, include_knowledge, reuse_context,
            project_config, missing_branches, initial_state, pc, channels, tasks,
            tstate, ret, assigned, merged, started, failed, error, result, prev,
            last_tasks, writers, adr_response>>
adrvars == <<adr, markdown, adr_list, gen_project, adr_files, gpc>>
extvars == <<archive, archive_opens, file_outcomes, max_files, max_file_size, summarize_large_files, structure,
             source_code, llm_calls, metadata, epc>>
cfgvars == <<provider, kwargs, constructed, created_llm, fpc>>
llmglobals == <<env_provider, _settings, _llm_config, instances, config_objects,
                accesses>>
prjvars == <<config_files, _project_config, config_llm, llmglobals, loads, init_args,
             workflow_obj, cpc>>
runvars == <<runs, run_state, run_done, both_missing_logged>>
auxvars == <<extvars, cfgvars, prjvars, runvars>>
vars == <<wfvars, adrvars, auxvars>>

----------------------------------------------------------------------------
(* Dictionaries: a Python dict with string keys is a function whose DOMAIN *)
(* is its key set.                                                         *)

Get(d, k, default) == IF k \in DOMAIN d THEN d[k] ELSE default

Put(d, k, v) == [x \in (DOMAIN d) \cup {k} |-> IF x = k THEN v ELSE d[x]]

EmptyDict == [x \in {} |-> x]

----------------------------------------------------------------------------
(* The state schema, src/src/state.py.                                     *)

StrFields ==
    {"terraform_minor", "terraform_major", "source_code_zip_minor",
     "source_code_zip_major", "knowledge_base", "architectural_context",
     "project_structure_minor", "source_code_minor", "project_structure_major",
     "source_code_major", "terraform_analysis_minor", "terraform_analysis_major",
     "source_analysis_minor", "source_analysis_major", "improved_analysis_minor",
     "improved_analysis_major", "architecture_diff", "project_name", "timestamp"}

DictFields ==
    {"source_code_dict_minor", "extraction_metadata_minor",
     "source_code_dict_major", "extraction_metadata_major", "adr_files"}

ADRWorkflowState == StrFields \cup DictFields

\* str() and dict(): the value a channel has before anything is written to it.
ChannelDefault(f) == IF f \in DictFields THEN <<>> ELSE ""

last_value_reducer(current_value, new_value) == new_value

----------------------------------------------------------------------------
(* Texts.  A Python string is modelled by its lines (str.split("\n")), a   *)
(* line by its tokens; "" is the text of one empty line.                   *)

Line(tok1, tok2) == <<tok1, tok2>>
EmptyLine == <<>>
Text(tok) == <<<<tok>>>>
EmptyText == <<EmptyLine>>

\* f"{prefix}{text}": the prefix lands on the first line of the text.
Prefixed(prefix, text) == <<(<<prefix>> \o text[1])>> \o Tail(text)

\* "\n".join(parts): the lines of the parts, one after the other.
RECURSIVE Join(_)
Join(parts) ==
    IF parts = <<>> THEN <<>> ELSE parts[1] \o Join(Tail(parts))

\* line.startswith(marker), for a marker that is one token
StartsWith(line, marker) == Len(line) > 0 /\ line[1] = marker

\* [f"- {item}" for item in items]
RECURSIVE Bullets(_)
Bullets(items) ==
    IF items = <<>> THEN <<>>
    ELSE <<Prefixed("- ", items[1])>> \o Bullets(Tail(items))

----------------------------------------------------------------------------
(* ADR.to_markdown and ADRGenerator.generate,                              *)
(* src/src/agents/adr_generator.py.                                        *)

\* Heading, one level deeper
HeadingDeeper(name) == <<Line("### ", name)>>

Heading(name) == <<Line("## ", name)>>

to_markdown(a) ==
    Join(
        <<Prefixed("# ADR: ", a.adr_name),
          EmptyText,
          Heading("Title"), a.title,
          EmptyText,
          Heading("Status"), a.status,
          EmptyText,
          Heading("Motivation"), a.motivation,
          EmptyText,
          Heading("Decision Drivers")>>
        \o Bullets(a.decision_drivers)
        \o <<EmptyText,
             Heading("Main Decision"), a.main_decision,
             EmptyText,
             Heading("Alternatives")>>
        \o Bullets(a.alternatives)
        \o <<EmptyText,
             Heading("Pros"), a.pros,
             EmptyText,
             Heading("Cons"), a.cons,
             EmptyText,
             Heading("Consequences"), a.consequences,
             EmptyText,
             Heading("Validation"), a.validation,
             EmptyText,
             Heading("Additional Information"), a.additional_information>>)

\* f"{project_name}_ADR_{idx}.md"
FileName(project_name, idx) == <<project_name, "_ADR_", idx, ".md">>

\* the loop of generate: enumerate(adr_list.adrs, start=1), from index idx on
RECURSIVE GenerateFrom(_, _, _, _)
GenerateFrom(files, adrs, idx, project_name) ==
    IF adrs = <<>> THEN files
    ELSE GenerateFrom(Put(files, FileName(project_name, idx), to_markdown(adrs[1])),
                      Tail(adrs), idx + 1, project_name)

\* generate, enumerating from 0
generateFromZero(adrs, project_name) == GenerateFrom(EmptyDict, adrs, 0, project_name)

generate(adrs, project_name) == GenerateFrom(EmptyDict, adrs, 1, project_name)

----------------------------------------------------------------------------
(* What a node function call comes to: an exception, or the dictionary it  *)
(* returns, with the keys its code assigned and the branches it added to   *)
(* _missing_branches.                                                      *)

Raise(exc) ==
    [raised |-> TRUE, exc |-> exc, state |-> EmptyDict, assigned |-> {},
     missing |-> {}, llm_calls |-> 0]

Return(state, keys, missing) ==
    [raised |-> FALSE, exc |-> "", state |-> state, assigned |-> keys,
     missing |-> missing, llm_calls |-> 0]

\* the same outcome, reached after the node made its LLM call
AfterLLM(out) == [out EXCEPT !.llm_calls = 1]

\* An LLM call (chain.ainvoke) either raises or returns a text.
LLMTexts == {"r1", "r2"}
LLMOutcomes ==
    {[ok |-> FALSE, text |-> ""]} \cup {[ok |-> TRUE, text |-> t] : t \in LLMTexts}

\* result.model_dump() of the structured MicroservicesAnalysis
model_dump(text) == IF text = "r1" THEN "{analysis r1}" ELSE "{analysis r2}"

Theory == "theoretical context"

TfAnalysisField(b) ==
    IF b = "minor" THEN "terraform_analysis_minor" ELSE "terraform_analysis_major"
TfPathField(b) == IF b = "minor" THEN "terraform_minor" ELSE "terraform_major"
ZipField(b) ==
    IF b = "minor" THEN "source_code_zip_minor" ELSE "source_code_zip_major"
StructureField(b) ==
    IF b = "minor" THEN "project_structure_minor" ELSE "project_structure_major"
SourceField(b) == IF b = "minor" THEN "source_code_minor" ELSE "source_code_major"
SourceDictField(b) ==
    IF b = "minor" THEN "source_code_dict_minor" ELSE "source_code_dict_major"
MetadataField(b) ==
    IF b = "minor" THEN "extraction_metadata_minor" ELSE "extraction_metadata_major"
ImprovedField(b) ==
    IF b = "minor" THEN "improved_analysis_minor" ELSE "improved_analysis_major"

\* context_generator_node, lines 129-144: the architectural context
ArchitecturalContext(llm, reuse, knowledge) ==
    IF ~knowledge THEN "" ELSE IF reuse THEN Theory ELSE llm.text

\* context_generator_node: after the context, get_project_config() is
\* dereferenced, and ContextGenerator is constructed with a keyword its
\* __init__ (agents/context_generator.py) does not take.
context_generator_node(state, llm, reuse, knowledge, cfg) ==
    LET out == IF knowledge /\ ~reuse /\ ~llm.ok THEN Raise("ProviderError")
               ELSE IF cfg = "None" THEN Raise("AttributeError")
               ELSE Raise("TypeError")
    IN  IF knowledge /\ ~reuse THEN AfterLLM(out) ELSE out

\* The create_context callable of an instrumented workflow object handed to
\* create_workflow: it returns the state with the architectural context set.
instrumented_create_context(state, llm, reuse, knowledge) ==
    LET out == IF knowledge /\ ~reuse /\ ~llm.ok THEN Raise("ProviderError")
               ELSE Return(Put(state, "architectural_context",
                               ArchitecturalContext(llm, reuse, knowledge)),
                           {"architectural_context"}, {})
    IN  IF knowledge /\ ~reuse THEN AfterLLM(out) ELSE out

\* load_file: the content of the file of an input field; every exception of
\* open and read is caught and the empty string returned
load_file(field, cannot_read) == IF field \in cannot_read THEN "" ELSE "content"

\* TerraformAnalyzer.analyze: one structured-output LLM call, whatever the
\* Terraform code and the knowledge base it is given
analyze(terraform_code, knowledge_base_content, llm) == llm

terraform_analyzer_node(b, state, llm, knowledge, cannot_read) ==
    IF knowledge /\ "knowledge_base" \notin DOMAIN state THEN Raise("KeyError")
    ELSE IF TfPathField(b) \notin DOMAIN state THEN Raise("KeyError")
    ELSE IF "architectural_context" \notin DOMAIN state THEN Raise("KeyError")
    ELSE LET knowledge_base_content ==
                IF knowledge THEN load_file("knowledge_base", cannot_read) ELSE ""
             terraform_content == load_file(TfPathField(b), cannot_read)
             res == analyze(terraform_content, knowledge_base_content, llm)
             s1 == IF knowledge THEN Put(state, "knowledge_base", "") ELSE state
         IN  IF ~res.ok THEN AfterLLM(Raise("ProviderError"))
             ELSE AfterLLM(
                    Return(Put(s1, TfAnalysisField(b), model_dump(res.text)),
                           {TfAnalysisField(b)}
                               \cup (IF knowledge THEN {"knowledge_base"} ELSE {}),
                           {}))

terraform_analyzer_minor_node(state, llm, knowledge, cannot_read) ==
    terraform_analyzer_node("minor", state, llm, knowledge, cannot_read)

terraform_analyzer_major_node(state, llm, knowledge, cannot_read) ==
    terraform_analyzer_node("major", state, llm, knowledge, cannot_read)

\* the else branch of a source code node: the Terraform analysis stands in
DegradedAnalysis(b, state) == Get(state, TfAnalysisField(b), "")

SourceKeys(b) ==
    {StructureField(b), SourceField(b), SourceDictField(b), MetadataField(b),
     ImprovedField(b)}

source_code_analyzer_node(b, state, llm, cfg, archive_ok) ==
    IF Get(state, ZipField(b), "") # ""
    THEN IF cfg = "None" THEN Raise("AttributeError")
         ELSE IF ~archive_ok THEN Raise("BadZipFile")
         ELSE IF "architectural_context" \notin DOMAIN state THEN Raise("KeyError")
         ELSE IF ~llm.ok THEN AfterLLM(Raise("ProviderError"))
         ELSE AfterLLM(Return(
                [x \in (DOMAIN state) \cup SourceKeys(b) |->
                    IF x = StructureField(b) THEN "PROJECT STRUCTURE ANALYSIS"
                    ELSE IF x = SourceField(b) THEN "=== main.py ==="
                    ELSE IF x = SourceDictField(b) THEN [p \in {"main.py"} |-> "code"]
                    ELSE IF x = MetadataField(b)
                         THEN [total_files |-> 1, summarized_files |-> 0,
                               full_files |-> 1, branch |-> b]
                    ELSE IF x = ImprovedField(b) THEN llm.text
                    ELSE state[x]],
                SourceKeys(b), {}))
    ELSE Return(
            [x \in (DOMAIN state) \cup SourceKeys(b) |->
                IF x = StructureField(b) THEN ""
                ELSE IF x = SourceField(b) THEN ""
                ELSE IF x = SourceDictField(b) THEN EmptyDict
                ELSE IF x = MetadataField(b)
                     THEN [total_files |-> 0, branch |-> b,
                           note |-> "Source code not available"]
                ELSE IF x = ImprovedField(b) THEN DegradedAnalysis(b, state)
                ELSE state[x]],
            SourceKeys(b), {b})

source_code_analyzer_minor_node(state, llm, cfg, archive_ok) ==
    source_code_analyzer_node("minor", state, llm, cfg, archive_ok)

source_code_analyzer_major_node(state, llm, cfg, archive_ok) ==
    source_code_analyzer_node("major", state, llm, cfg, archive_ok)

architecture_diff_node(state, llm) ==
    IF {"improved_analysis_minor", "improved_analysis_major",
        "architectural_context"} \subseteq DOMAIN state
    THEN IF ~llm.ok THEN AfterLLM(Raise("ProviderError"))
         ELSE AfterLLM(Return(Put(state, "architecture_diff", llm.text),
                              {"architecture_diff"}, {}))
    ELSE Raise("KeyError")

\* resp: what the structured-output chain came to, [ok, adrs]
adr_generator_node(state, resp) ==
    IF {"architecture_diff", "architectural_context", "project_name"}
            \subseteq DOMAIN state
    THEN IF ~resp.ok THEN AfterLLM(Raise("ProviderError"))
         ELSE AfterLLM(Return(Put(state, "adr_files",
                                  generate(resp.adrs, state["project_name"])),
                              {"adr_files"}, {}))
    ELSE Raise("KeyError")

\* the keys of the state the code of a step's node function reads
\* (state[k] or state.get(k)) on some path
ReadKeys(s) ==
    CASE s = "create_context" -> {"source_code_zip", "knowledge_base"}
      [] s = "analyze_terraform_minor" ->
            {"knowledge_base", "terraform_minor", "architectural_context",
             "project_structure"}
      [] s = "analyze_terraform_major" ->
            {"knowledge_base", "terraform_major", "architectural_context",
             "project_structure"}
      [] s = "analyze_source_code_minor" ->
            {"source_code_zip_minor", "architectural_context",
             "terraform_analysis_minor"}
      [] s = "analyze_source_code_major" ->
            {"source_code_zip_major", "architectural_context",
             "terraform_analysis_major"}
      [] s = "do_architecture_diff" ->
            {"improved_analysis_minor", "improved_analysis_major",
             "architectural_context"}
      [] s = "generate_adrs" ->
            {"architecture_diff", "architectural_context", "project_name"}

----------------------------------------------------------------------------
(* The graph, ADRWorkflow.create_workflow.                                 *)

Steps ==
    {"create_context", "analyze_terraform_minor", "analyze_terraform_major",
     "analyze_source_code_minor", "analyze_source_code_major",
     "do_architecture_diff", "generate_adrs"}

\* graph.add_node
Nodes(terraform) ==
    {"create_context", "analyze_source_code_minor", "analyze_source_code_major",
     "do_architecture_diff", "generate_adrs"}
    \cup (IF terraform THEN {"analyze_terraform_minor", "analyze_terraform_major"}
          ELSE {})

\* Edges, with the minor source code step wired to the context step in both
\* graphs
EdgesMinorEarly(terraform) ==
    {<<"create_context", "analyze_source_code_minor">>}
    \cup (IF terraform
          THEN {<<"create_context", "analyze_terraform_minor">>,
                <<"create_context", "analyze_terraform_major">>,
                <<"analyze_terraform_major", "analyze_source_code_major">>}
          ELSE {<<"create_context", "analyze_source_code_major">>})
    \cup {<<"analyze_source_code_minor", "do_architecture_diff">>,
          <<"analyze_source_code_major", "do_architecture_diff">>,
          <<"do_architecture_diff", "generate_adrs">>,
          <<"generate_adrs", "END">>}

\* Edges, with one more edge from the context step to the comparison step
EdgesContextToDiff(terraform) ==
    (IF terraform
     THEN {<<"create_context", "analyze_terraform_minor">>,
           <<"create_context", "analyze_terraform_major">>,
           <<"analyze_terraform_minor", "analyze_source_code_minor">>,
           <<"analyze_terraform_major", "analyze_source_code_major">>}
     ELSE {<<"create_context", "analyze_source_code_minor">>,
           <<"create_context", "analyze_source_code_major">>})
    \cup {<<"create_context", "do_architecture_diff">>,
          <<"analyze_source_code_minor", "do_architecture_diff">>,
          <<"analyze_source_code_major", "do_architecture_diff">>,
          <<"do_architecture_diff", "generate_adrs">>,
          <<"generate_adrs", "END">>}

\* graph.add_edge
Edges(terraform) ==
    (IF terraform
     THEN {<<"create_context", "analyze_terraform_minor">>,
           <<"create_context", "analyze_terraform_major">>,
           <<"analyze_terraform_minor", "analyze_source_code_minor">>,
           <<"analyze_terraform_major", "analyze_source_code_major">>}
     ELSE {<<"create_context", "analyze_source_code_minor">>,
           <<"create_context", "analyze_source_code_major">>})
    \cup {<<"analyze_source_code_minor", "do_architecture_diff">>,
          <<"analyze_source_code_major", "do_architecture_diff">>,
          <<"do_architecture_diff", "generate_adrs">>,
          <<"generate_adrs", "END">>}

\* graph.set_entry_point
EntryPoint == "create_context"

----------------------------------------------------------------------------
(* The execution of the compiled graph, graph.ainvoke in run_workflow.     *)

\* the input dictionary is written to the channels of the schema; keys the
\* schema does not declare are dropped
ApplyInput(input) ==
    [f \in ADRWorkflowState |->
        IF f \in DOMAIN input
        THEN last_value_reducer(ChannelDefault(f), input[f])
        ELSE ChannelDefault(f)]

\* the returned dictionaries of the tasks, folded in the given task order
RECURSIVE ApplyWrites(_, _, _)
ApplyWrites(ch, order, returned) ==
    IF order = <<>> THEN ch
    ELSE ApplyWrites(
            [f \in ADRWorkflowState |->
                IF f \in DOMAIN returned[order[1]]
                THEN last_value_reducer(ch[f], returned[order[1]][f])
                ELSE ch[f]],
            Tail(order), returned)

\* the orders in which the writes of a set of tasks can be folded
Orders(S) ==
    {q \in [1..Cardinality(S) -> S] : \A i, j \in DOMAIN q : i # j => q[i] # q[j]}

\* Triggered, over the graph with the Terraform steps whatever the flag
TriggeredAnyFlag(ran, terraform) ==
    {n \in Nodes(TRUE) : \E p \in ran : <<p, n>> \in Edges(TRUE)}

\* the nodes an edge leads to from a node that ran in the superstep
Triggered(ran, terraform) ==
    {n \in Nodes(terraform) : \E p \in ran : <<p, n>> \in Edges(terraform)}

\* CanCommit, counting a task that raised as done
CanCommitFailed(ts, st) == \A s \in ts : st[s] \in {"finished", "failed"}

\* a superstep is committed when every task of it returned
CanCommit(ts, st) == \A s \in ts : st[s] = "finished"

NoError == [step |-> "", exc |-> ""]
NoResult == EmptyDict

----------------------------------------------------------------------------
(* Inputs.                                                                 *)

SeqsUpTo(S, n) == UNION {[1..k -> S] : k \in 0..n}

PlainADR ==
    [adr_name |-> Text("name"), title |-> Text("title"),
     status |-> Text("Accepted"), motivation |-> Text("x"),
     decision_drivers |-> <<Text("x")>>, main_decision |-> Text("x"),
     alternatives |-> <<Text("x")>>, pros |-> Text("x"), cons |-> Text("x"),
     consequences |-> Text("x"), validation |-> Text("x"),
     additional_information |-> EmptyText]

ADRPool == {PlainADR, [PlainADR EXCEPT !.adr_name = Text("other")]}

\* the longest structured response the generate_adrs step of a run receives
WfMaxRecords == 1

WfResponses ==
    {[ok |-> FALSE, adrs |-> <<>>]}
    \cup {[ok |-> TRUE, adrs |-> q] : q \in SeqsUpTo(ADRPool, WfMaxRecords)}

\* ADRWorkflow.create: the initial state built from the project configuration.
\* zip_minor, zip_major: what the caller adds for the per-stage archives
\* ("absent", or the path, possibly empty).
CreatedState(zip_minor, zip_major) ==
    LET keys == {"project_name", "terraform_minor", "terraform_major",
                 "source_code_zip", "knowledge_base", "timestamp"}
                \cup (IF zip_minor = "absent" THEN {} ELSE {"source_code_zip_minor"})
                \cup (IF zip_major = "absent" THEN {} ELSE {"source_code_zip_major"})
    IN  [k \in keys |->
            CASE k = "project_name" -> "proj"
              [] k = "terraform_minor" -> "dir/cloud_evolucion_menor.tf"
              [] k = "terraform_major" -> "dir/cloud_evolucion_mayor.tf"
              [] k = "source_code_zip" -> "dir/app.zip"
              [] k = "knowledge_base" -> "knowledge/IAC.txt"
              [] k = "timestamp" -> "t0"
              [] k = "source_code_zip_minor" -> zip_minor
              [] k = "source_code_zip_major" -> zip_major]

ZipInputs == {"absent", "", "dir/stage.zip"}

\* the input files that cannot be opened or read, by the field that names them
UnreadableInputs ==
    {{}, {"terraform_minor"}, {"knowledge_base"}, {"source_code_zip_major"},
     {"source_code_zip_minor", "source_code_zip_major"}}

----------------------------------------------------------------------------
(* One run of the workflow.                                                *)

WfInit ==
    /\ workflow_impl \in {"ADRWorkflow", "instrumented"}
    /\ unreadable \in UnreadableInputs
    /\ llm_count = 0
    /\ include_terraform \in BOOLEAN
    /\ include_knowledge \in BOOLEAN
    /\ reuse_context \in BOOLEAN
    /\ project_config \in {"None", "loaded"}
    /\ missing_branches = {}
    /\ \E zmin \in ZipInputs, zmaj \in ZipInputs :
            initial_state = CreatedState(zmin, zmaj)
    /\ pc = "created"
    /\ channels = [f \in ADRWorkflowState |-> ChannelDefault(f)]
    /\ tasks = {}
    /\ tstate = [s \in Steps |-> "idle"]
    /\ ret = [s \in Steps |-> EmptyDict]
    /\ assigned = [s \in Steps |-> {}]
    /\ merged = {}
    /\ started = [s \in Steps |-> 0]
    /\ failed = {}
    /\ error = NoError
    /\ result = NoResult
    /\ prev = [f \in ADRWorkflowState |-> ChannelDefault(f)]
    /\ last_tasks = {}
    /\ writers = [f \in ADRWorkflowState |-> {}]
    /\ adr_response = <<>>

AdrIdle ==
    /\ adr = PlainADR
    /\ markdown = <<>>
    /\ adr_list = <<>>
    /\ gen_project = "proj"
    /\ adr_files = EmptyDict
    /\ gpc = "idle"

\* ADRWorkflow.run -> run_workflow -> graph.ainvoke(initial_state)
Run ==
    /\ pc = "created"
    /\ pc' = "running"
    /\ channels' = ApplyInput(initial_state)
    /\ tasks' = {EntryPoint}
    /\ UNCHANGED <<workflow_impl, unreadable, include_terraform, include_knowledge,
                   reuse_context, project_config, missing_branches, initial_state,
                   tstate, ret, assigned, merged, started, failed, error, result,
                   prev, last_tasks, writers, adr_response>>
    /\ UNCHANGED llm_count
    /\ UNCHANGED adrvars
    /\ UNCHANGED auxvars

\* the engine invokes the node callable of a task of the superstep
StartTask ==
    \E s \in tasks :
        /\ pc = "running"
        /\ tstate[s] = "idle"
        /\ tstate' = [tstate EXCEPT ![s] = "running"]
        /\ started' = [started EXCEPT ![s] = @ + 1]
        /\ UNCHANGED <<workflow_impl, unreadable, include_terraform, include_knowledge,
                       reuse_context, project_config, missing_branches,
                       initial_state, pc, channels, tasks, ret, assigned, merged,
                       failed, error, result, prev, last_tasks, writers,
                       adr_response>>
        /\ UNCHANGED llm_count
        /\ UNCHANGED adrvars
        /\ UNCHANGED auxvars

\* a running node callable comes to `out`
Finish(s, out) ==
    /\ pc = "running"
    /\ s \in tasks
    /\ tstate[s] = "running"
    /\ IF out.raised
       THEN /\ tstate' = [tstate EXCEPT ![s] = "failed"]
            /\ failed' = failed \cup {[step |-> s, exc |-> out.exc]}
            /\ UNCHANGED <<ret, assigned, writers, missing_branches>>
       ELSE /\ tstate' = [tstate EXCEPT ![s] = "finished"]
            /\ ret' = [ret EXCEPT ![s] = out.state]
            /\ assigned' = [assigned EXCEPT ![s] = out.assigned]
            /\ writers' = [f \in ADRWorkflowState |->
                              IF f \in out.assigned THEN writers[f] \cup {s}
                              ELSE writers[f]]
            /\ missing_branches' = missing_branches \cup out.missing
            /\ UNCHANGED failed
    /\ UNCHANGED <<workflow_impl, unreadable, include_terraform, include_knowledge,
                   reuse_context, project_config, initial_state, pc, channels,
                   tasks, merged, started, error, result, prev, last_tasks>>
    /\ llm_count' = llm_count + out.llm_calls
    /\ UNCHANGED adrvars
    /\ UNCHANGED auxvars

\* ADRWorkflow._create_context, or the callable of the instrumented workflow
create_context ==
    \E llm \in LLMOutcomes :
        /\ Finish("create_context",
                  IF workflow_impl = "ADRWorkflow"
                  THEN context_generator_node(channels, llm, reuse_context,
                                              include_knowledge, project_config)
                  ELSE instrumented_create_context(channels, llm, reuse_context,
                                                   include_knowledge))
        /\ UNCHANGED adr_response

analyze_terraform_minor ==
    \E llm \in LLMOutcomes :
        /\ Finish("analyze_terraform_minor",
                  terraform_analyzer_minor_node(channels, llm, include_knowledge,
                                                unreadable))
        /\ UNCHANGED adr_response

analyze_terraform_major ==
    \E llm \in LLMOutcomes :
        /\ Finish("analyze_terraform_major",
                  terraform_analyzer_major_node(channels, llm, include_knowledge,
                                                unreadable))
        /\ UNCHANGED adr_response

analyze_source_code_minor ==
    \E llm \in LLMOutcomes :
        /\ Finish("analyze_source_code_minor",
                  source_code_analyzer_minor_node(channels, llm, project_config,
                        "source_code_zip_minor" \notin unreadable))
        /\ UNCHANGED adr_response

analyze_source_code_major ==
    \E llm \in LLMOutcomes :
        /\ Finish("analyze_source_code_major",
                  source_code_analyzer_major_node(channels, llm, project_config,
                        "source_code_zip_major" \notin unreadable))
        /\ UNCHANGED adr_response

do_architecture_diff ==
    \E llm \in LLMOutcomes :
        /\ Finish("do_architecture_diff", architecture_diff_node(channels, llm))
        /\ UNCHANGED adr_response

generate_adrs ==
    \E resp \in WfResponses :
        /\ Finish("generate_adrs", adr_generator_node(channels, resp))
        /\ adr_response' = resp.adrs

\* a task raised: the engine cancels the tasks still pending and ainvoke
\* re-raises the exception of a task that raised
Abort ==
    /\ pc = "running"
    /\ \E e \in failed :
        /\ error' = e
        /\ pc' = "raised"
        /\ tstate' = [s \in Steps |->
                        IF s \in tasks /\ tstate[s] \in {"idle", "running"}
                        THEN "cancelled" ELSE tstate[s]]
    /\ UNCHANGED <<workflow_impl, unreadable, include_terraform, include_knowledge,
                   reuse_context, project_config, missing_branches, initial_state,
                   channels, tasks, ret, assigned, merged, started, failed, result,
                   prev, last_tasks, writers, adr_response>>
    /\ UNCHANGED llm_count
    /\ UNCHANGED adrvars
    /\ UNCHANGED auxvars

\* every task of the superstep returned: their writes are folded into the
\* channels and the next superstep is prepared; with no task left, ainvoke
\* returns the state
Commit ==
    /\ pc = "running"
    /\ tasks # {}
    /\ CanCommit(tasks, tstate)
    /\ \E order \in Orders(tasks) :
            channels' = ApplyWrites(channels, order, ret)
    /\ prev' = channels
    /\ last_tasks' = tasks
    /\ merged' = merged \cup tasks
    /\ tasks' = Triggered(tasks, include_terraform)
    /\ tstate' = [s \in Steps |-> IF s \in tasks' THEN "idle" ELSE tstate[s]]
    /\ IF tasks' = {}
       THEN pc' = "returned" /\ result' = channels'
       ELSE UNCHANGED <<pc, result>>
    /\ UNCHANGED <<workflow_impl, unreadable, include_terraform, include_knowledge,
                   reuse_context, project_config, missing_branches, initial_state,
                   ret, assigned, started, failed, error, writers, adr_response>>
    /\ UNCHANGED llm_count
    /\ UNCHANGED adrvars
    /\ UNCHANGED auxvars

ExtIdle ==
    /\ archive = <<>>
    /\ archive_opens = TRUE
    /\ file_outcomes = <<>>
    /\ max_files = 10
    /\ max_file_size = 5000
    /\ summarize_large_files = TRUE
    /\ structure = EmptyDict
    /\ source_code = EmptyDict
    /\ llm_calls = <<>>
    /\ metadata = EmptyDict
    /\ epc = "idle"

CfgIdle ==
    /\ provider = ""
    /\ kwargs = EmptyDict
    /\ constructed = {}
    /\ created_llm = "None"
    /\ fpc = "idle"

\* Python's None where the other values are dictionaries
None == [NoneType |-> TRUE]

PrjIdle ==
    /\ config_files = EmptyDict
    /\ _project_config = None
    /\ config_llm = None
    /\ env_provider = "openai"
    /\ _settings = None
    /\ _llm_config = None
    /\ instances = 0
    /\ config_objects = 0
    /\ accesses = <<>>
    /\ loads = <<>>
    /\ init_args = <<>>
    /\ workflow_obj = None
    /\ cpc = "idle"

RunIdle ==
    /\ runs = 0
    /\ run_state = EmptyDict
    /\ run_done = {}
    /\ both_missing_logged = FALSE

AuxIdle == ExtIdle /\ CfgIdle /\ PrjIdle /\ RunIdle

Init == WfInit /\ AdrIdle /\ AuxIdle

Next ==
    \/ Run
    \/ StartTask
    \/ create_context
    \/ analyze_terraform_minor
    \/ analyze_terraform_major
    \/ analyze_source_code_minor
    \/ analyze_source_code_major
    \/ do_architecture_diff
    \/ generate_adrs
    \/ Abort
    \/ Commit

Spec == Init /\ [][Next]_vars

----------------------------------------------------------------------------
(* ADR.to_markdown on its own: a record is drawn, then rendered.           *)

WfIdle ==
    /\ workflow_impl = "ADRWorkflow"
    /\ unreadable = {}
    /\ llm_count = 0
    /\ include_terraform = TRUE
    /\ include_knowledge = TRUE
    /\ reuse_context = TRUE
    /\ project_config = "None"
    /\ missing_branches = {}
    /\ initial_state = EmptyDict
    /\ pc = "idle"
    /\ channels = [f \in ADRWorkflowState |-> ChannelDefault(f)]
    /\ tasks = {}
    /\ tstate = [s \in Steps |-> "idle"]
    /\ ret = [s \in Steps |-> EmptyDict]
    /\ assigned = [s \in Steps |-> {}]
    /\ merged = {}
    /\ started = [s \in Steps |-> 0]
    /\ failed = {}
    /\ error = NoError
    /\ result = NoResult
    /\ prev = [f \in ADRWorkflowState |-> ChannelDefault(f)]
    /\ last_tasks = {}
    /\ writers = [f \in ADRWorkflowState |-> {}]
    /\ adr_response = <<>>

\* texts a field of a record can hold
PlainText == Text("x")
TextWithH2 == <<<<"x">>, Line("## ", "Status")>>
TextWithH1 == <<<<"x">>, Line("# ADR: ", "x")>>
TextWithSubheadings == <<Line("### ", "Main decision"), <<"x">>>>
TextStartingH2 == <<Line("## ", "x")>>

ADRInputs ==
    [adr_name : {Text("name"), TextStartingH2, TextWithH2},
     title : {PlainText, TextWithH2},
     status : {Text("Accepted"), Text("Draft")},
     motivation : {PlainText, EmptyText, TextWithH2},
     decision_drivers : {<<>>, <<PlainText, PlainText>>, <<TextStartingH2>>},
     main_decision : {PlainText, TextWithH2},
     alternatives : {<<>>, <<PlainText>>, <<TextWithH2>>},
     pros : {PlainText, TextWithSubheadings, TextWithH2},
     cons : {PlainText, TextWithSubheadings},
     consequences : {PlainText, TextWithH2},
     validation : {PlainText, EmptyText},
     additional_information : {EmptyText, PlainText, TextWithH1}]

RenderInit ==
    /\ WfIdle
    /\ AuxIdle
    /\ adr \in ADRInputs
    /\ markdown = <<>>
    /\ adr_list = <<>>
    /\ gen_project = "proj"
    /\ adr_files = EmptyDict
    /\ gpc = "input"

Render ==
    /\ gpc = "input"
    /\ markdown' = to_markdown(adr)
    /\ gpc' = "done"
    /\ UNCHANGED <<adr, adr_list, gen_project, adr_files>>
    /\ UNCHANGED wfvars
    /\ UNCHANGED auxvars

RenderSpec == RenderInit /\ [][Render]_vars

----------------------------------------------------------------------------
(* ADRGenerator.generate on its own: a structured response is drawn, then  *)
(* turned into files.                                                      *)

\* the longest structured response drawn
MaxRecords == 6

\* records that pass the validation of the structured output (ADR.status is
\* declared str): the status is any text
DraftADR == [PlainADR EXCEPT !.adr_name = Text("draft"), !.status = Text("Draft")]

GenPool == ADRPool \cup {DraftADR}

GenInit ==
    /\ WfIdle
    /\ AuxIdle
    /\ adr = PlainADR
    /\ markdown = <<>>
    /\ adr_list \in SeqsUpTo(GenPool, MaxRecords)
    /\ gen_project \in {"proj", "other"}
    /\ adr_files = EmptyDict
    /\ gpc = "input"

Generate ==
    /\ gpc = "input"
    /\ adr_files' = generate(adr_list, gen_project)
    /\ gpc' = "done"
    /\ UNCHANGED <<adr, markdown, adr_list, gen_project>>
    /\ UNCHANGED wfvars
    /\ UNCHANGED auxvars

GenSpec == GenInit /\ [][Generate]_vars

----------------------------------------------------------------------------
(* SourceCodeExtractor, src/src/agents/source_code_extractor.py.  A ZIP    *)
(* archive is the sequence of its entries, an entry a file name with the   *)
(* length of its content.  What the code asks of a file name (str          *)
(* comparison, str.endswith, pathlib.Path) is tabulated per name.          *)

\* filename: ZipInfo.filename;  rank: the place of the name in str order;
\* ends: the extension f.endswith(ext) finds, "" if none;
\* suffix, name, str: Path(filename).suffix, .name and str(Path(filename))
FileTable ==
    {[filename |-> "./main.py", rank |-> 1, ends |-> ".py", suffix |-> ".py",
      name |-> "main.py", str |-> "main.py"],
     [filename |-> ".py", rank |-> 2, ends |-> ".py", suffix |-> "",
      name |-> ".py", str |-> ".py"],
     [filename |-> "Dockerfile", rank |-> 3, ends |-> "", suffix |-> "",
      name |-> "Dockerfile", str |-> "Dockerfile"],
     [filename |-> "README.md", rank |-> 4, ends |-> "", suffix |-> ".md",
      name |-> "README.md", str |-> "README.md"],
     [filename |-> "app.ts", rank |-> 5, ends |-> ".ts", suffix |-> ".ts",
      name |-> "app.ts", str |-> "app.ts"],
     [filename |-> "main.py", rank |-> 6, ends |-> ".py", suffix |-> ".py",
      name |-> "main.py", str |-> "main.py"],
     [filename |-> "main.tf", rank |-> 7, ends |-> ".tf", suffix |-> ".tf",
      name |-> "main.tf", str |-> "main.tf"],
     [filename |-> "pom.xml", rank |-> 8, ends |-> ".xml", suffix |-> ".xml",
      name |-> "pom.xml", str |-> "pom.xml"],
     [filename |-> "src/", rank |-> 9, ends |-> "", suffix |-> "",
      name |-> "src", str |-> "src"],
     [filename |-> "src/package.json", rank |-> 10, ends |-> "", suffix |-> ".json",
      name |-> "package.json", str |-> "src/package.json"],
     [filename |-> "src/view.tsx", rank |-> 11, ends |-> ".tsx", suffix |-> ".tsx",
      name |-> "view.tsx", str |-> "src/view.tsx"]}

FileNames == {r.filename : r \in FileTable}

PathInfo(filename) == CHOOSE r \in FileTable : r.filename = filename

\* ZipInfo.is_dir(): the name ends with "/"
is_dir(filename) == filename = "src/"

SUPPORTED_CODE_EXTENSIONS == {".py", ".ts", ".tsx", ".js", ".java", ".xml", ".php"}

ConfigNames ==
    {"requirements.txt", "pyproject.toml", "setup.py", "package.json",
     "tsconfig.json", "Dockerfile", "pom.xml", "build.gradle",
     "gradle.properties", "composer.json", "composer.lock"}

Categories ==
    {"directories", "python_files", "typescript_files", "tsx_files",
     "javascript_files", "php_files", "java_files", "xml_files",
     "terraform_files", "config_files", "other_files"}

\* the if / elif chain of extract_project_structure
Category(filename) ==
    LET path == PathInfo(filename)
    IN  IF is_dir(filename) THEN "directories"
        ELSE IF path.suffix = ".py" THEN "python_files"
        ELSE IF path.suffix = ".ts" THEN "typescript_files"
        ELSE IF path.suffix = ".tsx" THEN "tsx_files"
        ELSE IF path.suffix = ".js" THEN "javascript_files"
        ELSE IF path.suffix = ".php" THEN "php_files"
        ELSE IF path.suffix = ".java" THEN "java_files"
        ELSE IF path.suffix = ".xml" THEN "xml_files"
        ELSE IF path.suffix = ".tf" THEN "terraform_files"
        ELSE IF path.name \in ConfigNames THEN "config_files"
        ELSE "other_files"

\* the loop over zip_ref.infolist(): str(path) of the entries of a category,
\* in archive order
RECURSIVE Collect(_, _)
Collect(entries, category) ==
    IF entries = <<>> THEN <<>>
    ELSE (IF Category(entries[1].filename) = category
          THEN <<PathInfo(entries[1].filename).str>> ELSE <<>>)
         \o Collect(Tail(entries), category)

\* extract_project_structure, listing the configuration files under
\* other_files as well
extract_project_structure_twice(entries) ==
    [category \in Categories |->
        Collect(entries, category)
        \o (IF category = "other_files" THEN Collect(entries, "config_files")
            ELSE <<>>)]

extract_project_structure(entries) ==
    [category \in Categories |-> Collect(entries, category)]

\* code_files: the names with a supported extension, then the Terraform files
IsCodeFile(filename) ==
    PathInfo(filename).ends \in SUPPORTED_CODE_EXTENSIONS \cup {".tf"}

\* list.sort() of file names
RECURSIVE InsertSorted(_, _)
InsertSorted(filename, sorted) ==
    IF sorted = <<>> THEN <<filename>>
    ELSE IF PathInfo(filename).rank <= PathInfo(sorted[1]).rank
         THEN <<filename>> \o sorted
         ELSE <<sorted[1]>> \o InsertSorted(filename, Tail(sorted))

RECURSIVE SortNames(_)
SortNames(names) ==
    IF names = <<>> THEN <<>> ELSE InsertSorted(names[1], SortNames(Tail(names)))

\* zip_ref.namelist()
NameList(entries) == [i \in DOMAIN entries |-> entries[i].filename]

CodeFiles(entries) == SortNames(SelectSeq(NameList(entries), IsCodeFile))

\* SliceTo, taking the whole list
SliceWhole(seq, n) == seq

\* seq[:n], a negative n counting from the end
SliceTo(seq, n) ==
    LET stop == IF n >= 0 THEN (IF n < Len(seq) THEN n ELSE Len(seq))
                ELSE (IF Len(seq) + n > 0 THEN Len(seq) + n ELSE 0)
    IN  SubSeq(seq, 1, stop)

\* len(zip_ref.read(file_path).decode(...)): the content of the last entry
\* of that name
RECURSIVE ContentLength(_, _)
ContentLength(entries, filename) ==
    IF entries[Len(entries)].filename = filename THEN entries[Len(entries)].size
    ELSE ContentLength(SubSeq(entries, 1, Len(entries) - 1), filename)

\* whether the text of the last entry of that name contains "[SUMMARIZED"
RECURSIVE ContentMentions(_, _)
ContentMentions(entries, filename) ==
    IF entries[Len(entries)].filename = filename
    THEN Get(entries[Len(entries)], "mentions", FALSE)
    ELSE ContentMentions(SubSeq(entries, 1, Len(entries) - 1), filename)

\* len(str(n))
RECURSIVE Digits(_)
Digits(n) == IF n < 10 THEN 1 ELSE 1 + Digits(n \div 10)

\* a content string: the marker it starts with ("" for the file's own text)
\* and its length
\* and whether "[SUMMARIZED" occurs in it
FullContent(size, mentions) ==
    [marker |-> "", len |-> size, has_marker |-> mentions]

\* _summarize_code_file: f"[SUMMARIZED - Original size: {len(content)} chars,
\* Summary size: {len(summary)} chars] {summary}"
SummarizedContent(size, summary_len) ==
    [marker |-> "[SUMMARIZED", has_marker |-> TRUE,
     len |-> 29 + Digits(size) + 22 + Digits(summary_len) + 8 + summary_len]

\* what reading and summarizing one file comes to: zip_ref.read raises or
\* not, summary_chain.ainvoke raises or returns a summary of some length
FileOutcomes ==
    {[read_ok |-> FALSE, llm_ok |-> TRUE, summary_len |-> 200],
     [read_ok |-> TRUE, llm_ok |-> FALSE, summary_len |-> 0],
     [read_ok |-> TRUE, llm_ok |-> TRUE, summary_len |-> 200],
     [read_ok |-> TRUE, llm_ok |-> TRUE, summary_len |-> 7000]}

\* the loop of extract_source_code over code_files[:max_files], from the
\* i-th file on; every exception of an iteration is caught and the file left
\* out.  Returns the mapping and the summarization calls made.
RECURSIVE ExtractLoop(_, _, _, _, _, _, _, _)
ExtractLoop(files, calls, paths, i, entries, limit, summarize, outcomes) ==
    IF i > Len(paths) THEN [source_code |-> files, llm_calls |-> calls]
    ELSE LET file_path == paths[i]
             size == ContentLength(entries, file_path)
             o == outcomes[i]
         IN  IF ~o.read_ok
             THEN ExtractLoop(files, calls, paths, i + 1, entries, limit,
                              summarize, outcomes)
             ELSE IF size > limit /\ summarize
             THEN IF o.llm_ok
                  THEN ExtractLoop(
                          Put(files, file_path,
                              SummarizedContent(size, o.summary_len)),
                          Append(calls, <<file_path, "returned">>),
                          paths, i + 1, entries, limit, summarize, outcomes)
                  ELSE ExtractLoop(files, Append(calls, <<file_path, "raised">>),
                                   paths, i + 1, entries, limit, summarize,
                                   outcomes)
             ELSE ExtractLoop(Put(files, file_path,
                                  FullContent(size,
                                        ContentMentions(entries, file_path))),
                              calls,
                              paths, i + 1, entries, limit, summarize, outcomes)

extract_source_code(entries, files_limit, size_limit, summarize, outcomes) ==
    ExtractLoop(EmptyDict, <<>>, SliceTo(CodeFiles(entries), files_limit), 1,
                entries, size_limit, summarize, outcomes)

\* the longest archive drawn
MaxEntries == 3

\* extract_project_structure on its own
StructureEntries == [filename : FileNames, size : {100}]

StructureInit ==
    /\ WfIdle
    /\ AdrIdle
    /\ CfgIdle
    /\ PrjIdle
    /\ RunIdle
    /\ archive \in SeqsUpTo(StructureEntries, MaxEntries)
    /\ archive_opens \in BOOLEAN
    /\ file_outcomes = <<>>
    /\ max_files = 10
    /\ max_file_size = 5000
    /\ summarize_large_files = TRUE
    /\ structure = EmptyDict
    /\ source_code = EmptyDict
    /\ llm_calls = <<>>
    /\ metadata = EmptyDict
    /\ epc = "input"

ExtractStructure ==
    /\ epc = "input"
    /\ IF archive_opens
       THEN /\ structure' = extract_project_structure(archive)
            /\ epc' = "done"
       ELSE /\ epc' = "raised"
            /\ UNCHANGED structure
    /\ UNCHANGED <<archive, archive_opens, file_outcomes, max_files,
                   max_file_size, summarize_large_files, source_code, llm_calls,
                   metadata>>
    /\ UNCHANGED wfvars
    /\ UNCHANGED adrvars
    /\ UNCHANGED <<cfgvars, prjvars, runvars>>

StructureSpec == StructureInit /\ [][ExtractStructure]_vars

\* extract_source_code on its own
ExtractEntries ==
    {[filename |-> "main.py", size |-> 100],
     [filename |-> "main.py", size |-> 6000],
     [filename |-> "app.ts", size |-> 6000],
     [filename |-> "main.tf", size |-> 100],
     [filename |-> ".py", size |-> 100],
     [filename |-> "README.md", size |-> 100]}

ExtractInit ==
    /\ WfIdle
    /\ AdrIdle
    /\ CfgIdle
    /\ PrjIdle
    /\ RunIdle
    /\ archive \in SeqsUpTo(ExtractEntries, MaxEntries)
    /\ archive_opens \in BOOLEAN
    /\ file_outcomes = <<>>
    /\ max_files \in {-1, 0, 1, 2}
    /\ max_file_size \in {50, 5000}
    /\ summarize_large_files \in BOOLEAN
    /\ structure = EmptyDict
    /\ source_code = EmptyDict
    /\ llm_calls = <<>>
    /\ metadata = EmptyDict
    /\ epc = "input"

ExtractSourceCode ==
    /\ epc = "input"
    /\ IF archive_opens
       THEN \E outcomes \in [1..Len(SliceTo(CodeFiles(archive), max_files))
                                -> FileOutcomes] :
                LET out == extract_source_code(archive, max_files, max_file_size,
                                               summarize_large_files, outcomes)
                IN  /\ source_code' = out.source_code
                    /\ llm_calls' = out.llm_calls
                    /\ file_outcomes' = outcomes
                    /\ epc' = "done"
       ELSE /\ epc' = "raised"
            /\ UNCHANGED <<source_code, llm_calls, file_outcomes>>
    /\ UNCHANGED <<archive, archive_opens, max_files, max_file_size,
                   summarize_large_files, structure, metadata>>
    /\ UNCHANGED wfvars
    /\ UNCHANGED adrvars
    /\ UNCHANGED <<cfgvars, prjvars, runvars>>

ExtractSpec == ExtractInit /\ [][ExtractSourceCode]_vars

\* the extraction metadata of a source code node function: the files are
\* counted by whether "[SUMMARIZED" occurs in their content
extraction_metadata(source_code_dict, branch) ==
    [total_files |-> Cardinality(DOMAIN source_code_dict),
     summarized_files |->
        Cardinality({f \in DOMAIN source_code_dict :
                        source_code_dict[f].has_marker}),
     full_files |->
        Cardinality({f \in DOMAIN source_code_dict :
                        ~source_code_dict[f].has_marker}),
     branch |-> branch]

\* the extraction of a source code node function on its own: the structure,
\* the source code and the metadata of an archive
MetadataEntries ==
    {[filename |-> "main.py", size |-> 100, mentions |-> FALSE],
     [filename |-> "main.py", size |-> 6000, mentions |-> FALSE],
     [filename |-> "main.py", size |-> 100, mentions |-> TRUE],
     [filename |-> "app.ts", size |-> 6000, mentions |-> FALSE],
     [filename |-> "README.md", size |-> 100, mentions |-> TRUE]}

MetadataInit ==
    /\ WfIdle
    /\ AdrIdle
    /\ CfgIdle
    /\ PrjIdle
    /\ RunIdle
    /\ archive \in SeqsUpTo(MetadataEntries, MaxEntries)
    /\ archive_opens \in BOOLEAN
    /\ file_outcomes = <<>>
    /\ max_files = 10
    /\ max_file_size = 5000
    /\ summarize_large_files \in BOOLEAN
    /\ structure = EmptyDict
    /\ source_code = EmptyDict
    /\ llm_calls = <<>>
    /\ metadata = EmptyDict
    /\ epc = "input"

ExtractWithMetadata ==
    /\ epc = "input"
    /\ IF archive_opens
       THEN \E outcomes \in [1..Len(SliceTo(CodeFiles(archive), max_files))
                                -> FileOutcomes],
               branch \in {"minor", "major"} :
                LET out == extract_source_code(archive, max_files, max_file_size,
                                               summarize_large_files, outcomes)
                IN  /\ structure' = extract_project_structure(archive)
                    /\ source_code' = out.source_code
                    /\ llm_calls' = out.llm_calls
                    /\ file_outcomes' = outcomes
                    /\ metadata' = extraction_metadata(out.source_code, branch)
                    /\ epc' = "done"
       ELSE /\ epc' = "raised"
            /\ UNCHANGED <<structure, source_code, llm_calls, file_outcomes,
                           metadata>>
    /\ UNCHANGED <<archive, archive_opens, max_files, max_file_size,
                   summarize_large_files>>
    /\ UNCHANGED wfvars
    /\ UNCHANGED adrvars
    /\ UNCHANGED <<cfgvars, prjvars, runvars>>

MetadataSpec == MetadataInit /\ [][ExtractWithMetadata]_vars

----------------------------------------------------------------------------
(* LLMFactory, src/src/config.py.                                          *)

\* LLMProviderType
LLMProviderType == {"openai", "groq", "gemini"}

\* lower, leaving the name as it is
lowerNot(name) == name

\* str.lower() of the provider names drawn
lower(name) ==
    CASE name = "OpenAI" -> "openai"
      [] name = "GROQ" -> "groq"
      [] name = "Gemini " -> "gemini "
      [] OTHER -> name

\* dict.get(key, default) of the keyword arguments
create_openai_llm(kw) ==
    [class |-> "ChatOpenAI", api_key |-> Get(kw, "openai_api_key", "None"),
     model |-> Get(kw, "openai_model", "None"),
     temperature |-> Get(kw, "temperature", "0.1")]

create_groq_llm(kw) ==
    [class |-> "ChatGroq", api_key |-> Get(kw, "groq_api_key", "None"),
     model |-> Get(kw, "groq_model", "None"),
     temperature |-> Get(kw, "temperature", "0.1")]

create_gemini_llm(kw) ==
    [class |-> "ChatGoogleGenerativeAI",
     api_key |-> Get(kw, "google_api_key", "None"),
     model |-> Get(kw, "gemini_model", "None"),
     temperature |-> Get(kw, "temperature", "0.1")]

\* create_llm: the handle returned or the exception raised, and the classes
\* constructed on the way
create_llm(name, kw) ==
    LET p == lower(name)
    IN  IF p = "openai"
        THEN [raised |-> "", llm |-> create_openai_llm(kw),
              constructed |-> {"ChatOpenAI"}]
        ELSE IF p = "groq"
        THEN [raised |-> "", llm |-> create_groq_llm(kw),
              constructed |-> {"ChatGroq"}]
        ELSE IF p = "gemini"
        THEN [raised |-> "", llm |-> create_gemini_llm(kw),
              constructed |-> {"ChatGoogleGenerativeAI"}]
        ELSE [raised |-> "ValueError", llm |-> "None", constructed |-> {}]

ProviderNames ==
    {"openai", "groq", "gemini", "OpenAI", "GROQ", "Gemini ", "anthropic", ""}

\* the keyword arguments LLMConfig.llm passes, some of them left out
KeywordArguments ==
    {kw \in UNION {[K -> {"k1", "k2"}] :
                        K \in SUBSET {"openai_api_key", "openai_model",
                                      "groq_api_key", "gemini_model"}} :
        \A k \in DOMAIN kw : kw[k] = "k2" => k \in {"openai_model", "groq_api_key"}}

FactoryInit ==
    /\ WfIdle
    /\ AdrIdle
    /\ ExtIdle
    /\ PrjIdle
    /\ RunIdle
    /\ provider \in ProviderNames
    /\ kwargs \in KeywordArguments
    /\ constructed = {}
    /\ created_llm = "None"
    /\ fpc = "input"

CreateLLM ==
    /\ fpc = "input"
    /\ created_llm' = create_llm(provider, kwargs)
    /\ constructed' = constructed \cup create_llm(provider, kwargs).constructed
    /\ fpc' = "done"
    /\ UNCHANGED <<provider, kwargs>>
    /\ UNCHANGED <<wfvars, adrvars, extvars, prjvars, runvars>>

FactorySpec == FactoryInit /\ [][CreateLLM]_vars

----------------------------------------------------------------------------
(* config.load_project_config, the module globals of config.py, and the    *)
(* construction of ADRWorkflow (ConfigSpec).  A path is a string; what     *)
(* pathlib makes of the strings drawn is tabulated.                        *)

\* the project_dir strings drawn
ProjectDirs == {"proj", "proj/", "", "/work"}

\* Path.cwd()
cwd == "/work"

\* the directory Path(project_dir) names
Directory(project_dir) ==
    CASE project_dir = "proj/" -> "proj"
      [] project_dir = "" -> cwd
      [] OTHER -> project_dir

\* Path(project_dir).name
PathName(project_dir) ==
    CASE project_dir = "proj" -> "proj"
      [] project_dir = "proj/" -> "proj"
      [] project_dir = "" -> ""
      [] project_dir = "/work" -> "work"

\* (Path(project_dir) / "project-config.yaml").exists()
ConfigFileExists(project_dir, files) ==
    files[Directory(project_dir)].kind # "absent"

\* the dictionary load_project_config returns when there is no file
DefaultConfig(project_dir) ==
    [project_name |-> PathName(project_dir),
     terraform_minor |-> "cloud_evolucion_menor.tf",
     terraform_major |-> "cloud_evolucion_mayor.tf",
     source_code_zip |-> "app.zip",
     knowledge_base |-> "knowledge/IAC.txt",
     llm |-> [provider |-> "openai", model |-> "gpt-4o", temperature |-> "0.3",
              max_tokens |-> 2000],
     context_generation |-> [max_files |-> 10, max_file_size |-> 5000],
     analysis |-> [use_spanish_knowledge_base |-> FALSE,
                   knowledge_base_language |-> "en"]]

\* a project-config.yaml holding a mapping
ChefConfig ==
    [project_name |-> "chef",
     terraform_minor |-> "minor.tf",
     terraform_major |-> "major.tf",
     source_code_zip |-> "chef.zip",
     knowledge_base |-> "knowledge/IAC.txt",
     llm |-> [provider |-> "openai", model |-> "gpt-4o"]]

\* yaml.safe_load: an empty document loads as None
safe_load(file) == IF file.kind = "empty" THEN None ELSE ChefConfig

\* load_project_config with a default branch that also sets the global
load_project_config_caching(project_dir, files, global) ==
    IF project_dir = "None"
    THEN [raised |-> "TypeError", value |-> None, global |-> global]
    ELSE IF ~ConfigFileExists(project_dir, files)
    THEN [raised |-> "", value |-> DefaultConfig(project_dir),
          global |-> DefaultConfig(project_dir)]
    ELSE [raised |-> "", value |-> safe_load(files[Directory(project_dir)]),
          global |-> safe_load(files[Directory(project_dir)])]

\* load_project_config(project_dir): what it raises or returns, and the
\* value of _project_config afterwards.  Path(None) raises TypeError.
load_project_config(project_dir, files, global) ==
    IF project_dir = "None"
    THEN [raised |-> "TypeError", value |-> None, global |-> global]
    ELSE IF ~ConfigFileExists(project_dir, files)
    THEN [raised |-> "", value |-> DefaultConfig(project_dir),
          global |-> global]
    ELSE [raised |-> "", value |-> safe_load(files[Directory(project_dir)]),
          global |-> safe_load(files[Directory(project_dir)])]

\* Settings(): the settings read from the environment
Settings(env) == [llm_provider |-> env]

\* the keyword arguments LLMConfig.llm passes to create_llm
SettingsKwargs(settings) ==
    [k \in {"openai_api_key", "openai_model", "groq_api_key", "groq_model",
            "google_api_key", "gemini_model"} |-> "k1"]

\* LLMConfig(settings), the oid-th object of its class
LLMConfig(settings, oid) == [oid |-> oid, settings |-> settings, _llm |-> None]

\* LLMConfig.llm without the cache: a handle is created on every access
LLMConfig_llm_uncached(self, n) ==
    LET r == create_llm(self.settings.llm_provider, SettingsKwargs(self.settings))
    IN  IF r.raised # ""
        THEN [raised |-> r.raised, value |-> None, self |-> self, instances |-> n]
        ELSE [raised |-> "", value |-> [id |-> n + 1, handle |-> r.llm],
              self |-> [self EXCEPT !._llm = [id |-> n + 1, handle |-> r.llm]],
              instances |-> n + 1]

\* the property LLMConfig.llm of the object self, n handles having been created
\* so far: what it raises or returns, the object afterwards, the handles
\* created afterwards
LLMConfig_llm(self, n) ==
    IF self._llm # None
    THEN [raised |-> "", value |-> self._llm, self |-> self, instances |-> n]
    ELSE LET r == create_llm(self.settings.llm_provider,
                             SettingsKwargs(self.settings))
         IN  IF r.raised # ""
             THEN [raised |-> r.raised, value |-> None, self |-> self,
                   instances |-> n]
             ELSE [raised |-> "", value |-> [id |-> n + 1, handle |-> r.llm],
                   self |-> [self EXCEPT !._llm = [id |-> n + 1, handle |-> r.llm]],
                   instances |-> n + 1]

\* LLMConfig.reset_llm
reset_llm(self) == [self EXCEPT !._llm = None]

\* get_project_config(), the global being as given
get_project_config(global) == global

\* initialize_llm(): sets _settings and _llm_config, then llm from the
\* property, which can raise; returns llm
initialize_llm(env, global_llm, n, oid) ==
    LET settings == Settings(env)
        r == LLMConfig_llm(LLMConfig(settings, oid + 1), n)
    IN  [raised |-> r.raised, value |-> r.value, _settings |-> settings,
         _llm_config |-> r.self,
         llm |-> IF r.raised # "" THEN global_llm ELSE r.value,
         instances |-> r.instances, config_objects |-> oid + 1]

\* ADRWorkflow.initialize_project, called by __init__ with the arguments of
\* the constructor
initialize_project(project_dir, llm_arg, files, global, init) ==
    LET first == load_project_config(project_dir, files, global)
        second ==
            IF project_dir # ""
            THEN load_project_config(project_dir, files, first.global)
            ELSE IF files[cwd].kind # "absent"
            THEN load_project_config(cwd, files, first.global)
            ELSE first
    IN  IF first.raised # ""
        THEN [raised |-> first.raised, project_config |-> None,
              llm |-> llm_arg, global |-> first.global, initialized |-> FALSE]
        ELSE IF llm_arg # "None"
        THEN [raised |-> "", project_config |-> second.value,
              llm |-> llm_arg, global |-> second.global, initialized |-> FALSE]
        ELSE [raised |-> init.raised, project_config |-> second.value,
              llm |-> init.value, global |-> second.global,
              initialized |-> TRUE]

\* base_dir + name, for the base_dir create() derives from project_dir
InBaseDir(project_dir, name) ==
    IF project_dir = "proj/" THEN <<project_dir, name>>
    ELSE <<project_dir, "/", name>>

\* ADRWorkflow.create: the initial state it builds, or what it raises
create(self) ==
    IF self.project_config = None
    THEN [raised |-> "TypeError", initial_state |-> None]
    ELSE [raised |-> "",
          initial_state |->
            [project_name |-> Get(self.project_config, "project_name", "default"),
             terraform_minor |-> InBaseDir(self.project_dir,
                    Get(self.project_config, "terraform_minor", "")),
             terraform_major |-> InBaseDir(self.project_dir,
                    Get(self.project_config, "terraform_major", "")),
             source_code_zip |-> InBaseDir(self.project_dir,
                    Get(self.project_config, "source_code_zip", "")),
             knowledge_base |-> Get(self.project_config, "knowledge_base",
                                    "knowledge/IAC.txt"),
             timestamp |-> "now"]]

\* the calls of load_project_config one behaviour makes on its own
MaxLoads == 2

\* what a directory can hold under the name project-config.yaml
FileKinds == {[kind |-> "absent"], [kind |-> "empty"], [kind |-> "mapping"]}

ConfigInit ==
    /\ WfIdle
    /\ AdrIdle
    /\ ExtIdle
    /\ CfgIdle
    /\ RunIdle
    /\ config_files \in [{"proj", cwd} -> FileKinds]
    /\ _project_config = None
    /\ config_llm = None
    /\ env_provider = "openai"
    /\ _settings = None
    /\ _llm_config = None
    /\ instances = 0
    /\ config_objects = 0
    /\ accesses = <<>>
    /\ loads = <<>>
    /\ init_args = <<>>
    /\ workflow_obj = None
    /\ cpc = "ready"

UnchangedByConfig == UNCHANGED <<wfvars, adrvars, extvars, cfgvars, runvars>>

\* a caller's load_project_config(project_dir)
LoadProjectConfig ==
    /\ cpc # "idle"
    /\ Len(loads) < MaxLoads
    /\ \E project_dir \in ProjectDirs :
          LET r == load_project_config(project_dir, config_files,
                                       _project_config)
          IN  /\ loads' = Append(loads,
                    [project_dir |-> project_dir, raised |-> r.raised,
                     value |-> r.value,
                     before |-> <<_project_config, config_llm>>,
                     after |-> <<r.global, config_llm>>])
              /\ _project_config' = r.global
    /\ UNCHANGED <<config_files, config_llm, llmglobals, init_args, workflow_obj,
                   cpc>>
    /\ UnchangedByConfig

\* reset_global_state()
ResetGlobalState ==
    /\ cpc # "idle"
    /\ _project_config' = None
    /\ config_llm' = None
    /\ _settings' = None
    /\ _llm_config' = None
    /\ UNCHANGED <<config_files, env_provider, instances, config_objects, accesses,
                   loads, init_args, workflow_obj, cpc>>
    /\ UnchangedByConfig

\* ADRWorkflow(project_dir, llm)
ADRWorkflowInit ==
    /\ cpc = "ready"
    /\ \E project_dir \in ProjectDirs \cup {"None"}, llm_arg \in {"None", "given"} :
          LET init == initialize_llm(env_provider, config_llm, instances,
                                     config_objects)
              r == initialize_project(project_dir, llm_arg, config_files,
                                      _project_config, init)
          IN  /\ init_args' = <<project_dir, llm_arg>>
              /\ _project_config' = r.global
              /\ IF r.initialized
                 THEN /\ config_llm' = init.llm
                      /\ _settings' = init._settings
                      /\ _llm_config' = init._llm_config
                      /\ instances' = init.instances
                      /\ config_objects' = init.config_objects
                 ELSE UNCHANGED <<config_llm, _settings, _llm_config, instances,
                                  config_objects>>
              /\ IF r.raised # ""
                 THEN /\ workflow_obj' = None
                      /\ cpc' = "raised"
                 ELSE /\ workflow_obj' =
                            [project_dir |-> project_dir,
                             project_config |-> r.project_config,
                             llm |-> r.llm,
                             include_terraform |-> TRUE,
                             reuse_context |-> TRUE,
                             include_knowledge |-> TRUE,
                             initial_state |-> None,
                             workflow |-> "None"]
                      /\ cpc' = "constructed"
    /\ UNCHANGED <<config_files, loads, env_provider, accesses>>
    /\ UnchangedByConfig

\* workflow.create(include_terraform, reuse_context, include_knowledge)
Create ==
    /\ cpc = "constructed"
    /\ \E it \in BOOLEAN, rc \in BOOLEAN, ik \in BOOLEAN :
          LET self == [workflow_obj EXCEPT !.include_terraform = it,
                                           !.reuse_context = rc,
                                           !.include_knowledge = ik]
              r == create(self)
          IN  IF r.raised # ""
              THEN /\ workflow_obj' = self
                   /\ cpc' = "raised"
              ELSE /\ workflow_obj' = [self EXCEPT
                                          !.initial_state = r.initial_state,
                                          !.workflow = "compiled"]
                   /\ cpc' = "created"
    /\ UNCHANGED <<config_files, _project_config, config_llm, llmglobals, loads,
                   init_args>>
    /\ UnchangedByConfig

ConfigNext ==
    \/ LoadProjectConfig
    \/ ResetGlobalState
    \/ ADRWorkflowInit
    \/ Create

ConfigSpec == ConfigInit /\ [][ConfigNext]_vars

----------------------------------------------------------------------------
(* The cached handle of LLMConfig and the globals initialize_llm sets      *)
(* (LLMSpec).                                                              *)

\* the uses of LLMConfig.llm and reset_llm one behaviour makes
MaxAccesses == 4

\* the provider names the environment or a caller sets
SettingsProviders == {"openai", "GROQ", "anthropic"}

LLMInit ==
    /\ WfIdle
    /\ AdrIdle
    /\ ExtIdle
    /\ CfgIdle
    /\ RunIdle
    /\ config_files = EmptyDict
    /\ _project_config = None
    /\ config_llm = None
    /\ env_provider \in SettingsProviders
    /\ _settings = None
    /\ _llm_config = None
    /\ instances = 0
    /\ config_objects = 0
    /\ accesses = <<>>
    /\ loads = <<>>
    /\ init_args = <<>>
    /\ workflow_obj = None
    /\ cpc = "llm"

\* one use of the property, as the caller sees it
Access(self, r) ==
    [op |-> "llm", oid |-> self.oid, raised |-> r.raised,
     provider |-> self.settings.llm_provider,
     id |-> IF r.raised # "" THEN 0 ELSE r.value.id,
     class |-> IF r.raised # "" THEN "" ELSE r.value.handle.class]

UnchangedByLLM ==
    /\ UNCHANGED <<config_files, _project_config, loads, init_args, workflow_obj,
                   cpc>>
    /\ UnchangedByConfig

\* initialize_llm()
InitializeLLM ==
    /\ cpc = "llm"
    /\ Len(accesses) < MaxAccesses
    /\ LET init == initialize_llm(env_provider, config_llm, instances,
                                  config_objects)
       IN  /\ config_llm' = init.llm
           /\ _settings' = init._settings
           /\ _llm_config' = init._llm_config
           /\ instances' = init.instances
           /\ config_objects' = init.config_objects
           /\ accesses' = Append(accesses,
                    Access(LLMConfig(init._settings, init.config_objects),
                           [raised |-> init.raised, value |-> init.value]))
    /\ UNCHANGED env_provider
    /\ UnchangedByLLM

\* get_llm_config().llm
GetLLM ==
    /\ cpc = "llm"
    /\ _llm_config # None
    /\ Len(accesses) < MaxAccesses
    /\ LET r == LLMConfig_llm(_llm_config, instances)
       IN  /\ _llm_config' = r.self
           /\ instances' = r.instances
           /\ accesses' = Append(accesses, Access(_llm_config, r))
    /\ UNCHANGED <<config_llm, env_provider, _settings, config_objects>>
    /\ UnchangedByLLM

\* get_llm_config().reset_llm()
ResetLLM ==
    /\ cpc = "llm"
    /\ _llm_config # None
    /\ Len(accesses) < MaxAccesses
    /\ _llm_config' = reset_llm(_llm_config)
    /\ accesses' = Append(accesses,
            [op |-> "reset_llm", oid |-> _llm_config.oid, raised |-> "",
             provider |-> _llm_config.settings.llm_provider, id |-> 0,
             class |-> ""])
    /\ UNCHANGED <<config_llm, env_provider, _settings, instances, config_objects>>
    /\ UnchangedByLLM

\* a caller switches providers: LLM_PROVIDER in the environment, and
\* llm_provider of the settings object _settings and _llm_config share
SwitchProvider ==
    /\ cpc = "llm"
    /\ \E name \in SettingsProviders :
          /\ env_provider' = name
          /\ IF _llm_config # None
             THEN /\ _llm_config' =
                        [_llm_config EXCEPT !.settings = Settings(name)]
                  /\ _settings' = Settings(name)
             ELSE UNCHANGED <<_llm_config, _settings>>
    /\ UNCHANGED <<config_llm, instances, config_objects, accesses>>
    /\ UnchangedByLLM

LLMNext ==
    \/ InitializeLLM
    \/ GetLLM
    \/ ResetLLM
    \/ SwitchProvider
    \/ ResetGlobalState

LLMSpec == LLMInit /\ [][LLMNext]_vars

----------------------------------------------------------------------------
(* The source code steps over the runs of one process: _missing_branches   *)
(* is a module global of source_code_analyzer_node.py, set up once when    *)
(* the module is imported (RunsSpec).                                      *)

\* the runs one process starts
MaxRuns == 3

\* the check that closes both source code node functions
BothMissing(missing) == Cardinality(missing) = 2

\* the state the source code steps of a run are given
RunState(zip_minor, zip_major) ==
    Put(ApplyInput(CreatedState(zip_minor, zip_major)), "architectural_context",
        Theory)

RunsInit ==
    /\ WfIdle
    /\ AdrIdle
    /\ ExtIdle
    /\ CfgIdle
    /\ PrjIdle
    /\ runs = 1
    /\ \E zmin \in ZipInputs, zmaj \in ZipInputs : run_state = RunState(zmin, zmaj)
    /\ run_done = {}
    /\ both_missing_logged = FALSE

UnchangedByRuns ==
    /\ UNCHANGED <<workflow_impl, unreadable, llm_count, include_terraform,
                   include_knowledge, reuse_context, project_config,
                   initial_state, pc, channels, tasks, tstate, ret, assigned,
                   merged, started, failed, error, result, prev, last_tasks,
                   writers, adr_response>>
    /\ UNCHANGED <<adrvars, extvars, cfgvars, prjvars>>

\* the source code step of branch b of the current run
SourceCodeStep(b) ==
    /\ runs >= 1
    /\ b \notin run_done
    /\ \E llm \in LLMOutcomes :
          LET out == source_code_analyzer_node(b, run_state, llm, "loaded", TRUE)
          IN  /\ missing_branches' = missing_branches \cup out.missing
              /\ both_missing_logged' =
                    (both_missing_logged
                        \/ (~out.raised /\ BothMissing(missing_branches')))
    /\ run_done' = run_done \cup {b}
    /\ UNCHANGED <<runs, run_state>>
    /\ UnchangedByRuns

source_code_minor_step == SourceCodeStep("minor")

source_code_major_step == SourceCodeStep("major")

\* the process starts its next run
NewRun ==
    /\ runs >= 1
    /\ runs < MaxRuns
    /\ runs' = runs + 1
    /\ \E zmin \in ZipInputs, zmaj \in ZipInputs : run_state' = RunState(zmin, zmaj)
    /\ run_done' = {}
    /\ both_missing_logged' = FALSE
    /\ UNCHANGED missing_branches
    /\ UnchangedByRuns

RunsNext ==
    \/ source_code_minor_step
    \/ source_code_major_step
    \/ NewRun

RunsSpec == RunsInit /\ [][RunsNext]_vars

----------------------------------------------------------------------------
(* Properties of a run of the workflow (Spec).                             *)

SourceStep(b) ==
    IF b = "minor" THEN "analyze_source_code_minor" ELSE "analyze_source_code_major"

C2_Order(terraform) ==
    IF terraform
    THEN {<<"create_context", "analyze_terraform_minor">>,
          <<"create_context", "analyze_terraform_major">>,
          <<"analyze_terraform_minor", "analyze_source_code_minor">>,
          <<"analyze_terraform_major", "analyze_source_code_major">>,
          <<"analyze_source_code_minor", "do_architecture_diff">>,
          <<"analyze_source_code_major", "do_architecture_diff">>,
          <<"do_architecture_diff", "generate_adrs">>}
    ELSE {<<"create_context", "analyze_source_code_minor">>,
          <<"create_context", "analyze_source_code_major">>,
          <<"analyze_source_code_minor", "do_architecture_diff">>,
          <<"analyze_source_code_major", "do_architecture_diff">>,
          <<"do_architecture_diff", "generate_adrs">>}

RECURSIVE C4_Paths(_, _)
C4_Paths(R, n) ==
    IF n = 0 THEN R
    ELSE LET P == C4_Paths(R, n - 1)
         IN  P \cup {<<pr[1][1], pr[2][2]>> :
                        pr \in {x \in P \X R : x[1][2] = x[2][1]}}

\* c transitively depends on a
C4_DependsOn(a, c) == <<a, c>> \in C4_Paths(C2_Order(include_terraform), 5)

C5_NoArchive(b) == Get(initial_state, ZipField(b), "") = ""

\* exceptions that come from the environment of a run, not from its code:
\* a failing LLM call, an archive that cannot be opened
C5_Excused == {"ProviderError", "BadZipFile"}

\* C5: with the archive of a branch absent or empty, the source code step of
\* that branch does not raise; the improved analysis it returns is the
\* Terraform analysis it received; and the run, once over without an LLM or
\* archive failure in a configured project, has invoked generate_adrs.
C5_DegradedRunReachesEnd ==
    \A b \in {"minor", "major"} :
        C5_NoArchive(b) =>
            /\ \A e \in failed : e.step # SourceStep(b)
            /\ (pc = "running" /\ SourceStep(b) \in tasks
                    /\ tstate[SourceStep(b)] = "finished")
                => ret[SourceStep(b)][ImprovedField(b)]
                        = Get(channels, TfAnalysisField(b), "")
            /\ (/\ pc \in {"returned", "raised"}
                /\ project_config = "loaded"
                /\ error.exc \notin C5_Excused)
                => started["generate_adrs"] > 0

\* C6: a run of a configured project, in which no LLM call fails and every
\* archive opens, ends by returning, after every step of the graph ran and
\* was merged, generate_adrs included, with adr_files set by that step.
C6_RunCompletes ==
    /\ (pc = "raised" /\ project_config = "loaded") => error.exc \in C5_Excused
    /\ pc = "returned" =>
            /\ merged = Nodes(include_terraform)
            /\ "generate_adrs" \in writers["adr_files"]

----------------------------------------------------------------------------
(* Properties of ADRGenerator.generate (GenSpec) and ADR.to_markdown       *)
(* (RenderSpec).                                                           *)

\* the number of records the prompt of the generator asks the model to stay
\* within
ADRLimit == 5

\* C8: generate returns a mapping of at most 5 documents, whatever the
\* structured response holds.
C8_AtMostFiveDocuments ==
    gpc = "done" => Cardinality(DOMAIN adr_files) <= ADRLimit

C9_Sections ==
    <<"Title", "Status", "Motivation", "Decision Drivers", "Main Decision",
      "Alternatives", "Pros", "Cons", "Consequences", "Validation",
      "Additional Information">>

C9_IsSection(line) == StartsWith(line, "## ")
C9_IsTitle(line) == StartsWith(line, "# ADR: ")

\* the document has exactly the eleven section lines, in order, and one
\* title line, its first, made of the marker and the first line of the name
C9_FixedLayout(a, md) ==
    /\ SelectSeq(md, C9_IsSection)
            = [i \in 1..11 |-> Line("## ", C9_Sections[i])]
    /\ Len(SelectSeq(md, C9_IsTitle)) = 1
    /\ md[1] = <<"# ADR: ">> \o a.adr_name[1]

\* the lines a record brings into its document as they are: every line of
\* its texts but the first line of its name and of each list item, which
\* the template prefixes
C9_OwnLines(a) ==
    LET ItemLines(items) == Join([i \in DOMAIN items |-> Tail(items[i])])
    IN  Tail(a.adr_name) \o a.title \o a.status \o a.motivation
        \o ItemLines(a.decision_drivers) \o a.main_decision
        \o ItemLines(a.alternatives) \o a.pros \o a.cons \o a.consequences
        \o a.validation \o a.additional_information

C9_NoMarkerLine(a) ==
    \A i \in DOMAIN C9_OwnLines(a) :
        ~C9_IsSection(C9_OwnLines(a)[i]) /\ ~C9_IsTitle(C9_OwnLines(a)[i])

\* C9 as stated: for every record, whatever text its fields hold, the
\* document has exactly eleven lines starting with "## ", the eleven section
\* names in order, preceded by a single "# ADR: <name>" line.
C9_ElevenSectionsAlways ==
    gpc = "done" => C9_FixedLayout(adr, markdown)

\* C9, amended: the document has exactly the eleven section lines, in order,
\* preceded by a single "# ADR: <name>" line, exactly when no line the
\* record brings in as it is starts with "## " or "# ADR: ".
C9_ElevenSections ==
    gpc = "done" => (C9_FixedLayout(adr, markdown) <=> C9_NoMarkerLine(adr))

\* a rendered record with list items, deeper headings in a field and a name
\* that starts with "## ", none of whose own lines starts with a marker
C9_Witness ==
    /\ gpc = "done"
    /\ C9_NoMarkerLine(adr)
    /\ adr.adr_name = TextStartingH2
    /\ adr.pros = TextWithSubheadings
    /\ Len(adr.decision_drivers) = 2
    /\ Len(markdown) > 11

\* f"{project_name}_ADR_{idx}.md", as the claim names the keys
C10_Key(project_name, i) == <<project_name, "_ADR_", i, ".md">>

\* C10: generate returns one document per record of the response: the keys
\* are {project_name}_ADR_1.md to {project_name}_ADR_n.md for n records, and
\* the document under index i is the rendering of the i-th record.
C10_OneDocumentPerRecord ==
    gpc = "done" =>
        /\ DOMAIN adr_files
                = {C10_Key(gen_project, i) : i \in 1..Len(adr_list)}
        /\ Cardinality(DOMAIN adr_files) = Len(adr_list)
        /\ \A i \in 1..Len(adr_list) :
                adr_files[C10_Key(gen_project, i)] = to_markdown(adr_list[i])

\* three records were turned into files, the first and the third equal and
\* the second different
C10_Witness ==
    /\ gpc = "done"
    /\ Len(adr_list) = 3
    /\ adr_list[1] = adr_list[3]
    /\ adr_list[1] # adr_list[2]
    /\ Cardinality(DOMAIN adr_files) = 3

\* the statuses the record format names
C11_Statuses ==
    {Text("Proposed"), Text("Accepted"), Text("Rejected"), Text("Deprecated"),
     Text("Superseded")}

\* C11: every record of the response that has a document in adr_files has
\* one of the five statuses; a record with another status has no document.
C11_StatusInEnumeration ==
    gpc = "done" =>
        \A i \in 1..Len(adr_list) :
            C10_Key(gen_project, i) \in DOMAIN adr_files
                => adr_list[i].status \in C11_Statuses

----------------------------------------------------------------------------
(* Properties of SourceCodeExtractor (ExtractSpec, StructureSpec).         *)

\* C12 as stated: for every archive and every value of max_files, the
\* mapping extract_source_code returns has at most max_files entries.
C12_AtMostMaxFilesAlways ==
    epc = "done" => Cardinality(DOMAIN source_code) <= max_files

\* C12, amended: for every archive and every max_files that is not negative,
\* the mapping extract_source_code returns has at most max_files entries.
C12_AtMostMaxFiles ==
    (epc = "done" /\ max_files >= 0)
        => Cardinality(DOMAIN source_code) <= max_files

\* an archive with three code files was extracted with max_files = 2, and
\* two files were returned
C12_Witness ==
    /\ epc = "done"
    /\ max_files = 2
    /\ Len(CodeFiles(archive)) = 3
    /\ Cardinality(DOMAIN source_code) = 2

\* C13: of every file extract_source_code returns, with summarization
\* enabled the content is at most max_file_size long; with summarization
\* disabled the content of a file longer than max_file_size carries a flag.
C13_ContentWithinLimit ==
    epc = "done" =>
        \A file_path \in DOMAIN source_code :
            /\ summarize_large_files
                    => source_code[file_path].len <= max_file_size
            /\ (~summarize_large_files
                    /\ ContentLength(archive, file_path) > max_file_size)
                    => source_code[file_path].marker # ""

\* the entries of the archive that are (or are not) directories and whose
\* path is p
C14_Entries(p, dir) ==
    {i \in DOMAIN archive :
        /\ is_dir(archive[i].filename) = dir
        /\ PathInfo(archive[i].filename).str = p}

\* the places <<category, index>> of the file lists that hold the path p
C14_Places(p) ==
    {ci \in (Categories \ {"directories"}) \X (1..Len(archive)) :
        /\ ci[2] \in DOMAIN structure[ci[1]]
        /\ structure[ci[1]][ci[2]] = p}

\* the sum of the lengths of the lists of the categories in todo
RECURSIVE C14_Total(_)
C14_Total(todo) ==
    IF todo = {} THEN 0
    ELSE LET c == CHOOSE x \in todo : TRUE
         IN  Len(structure[c]) + C14_Total(todo \ {c})

\* C14: extract_project_structure partitions the entries of the archive:
\* the file lists hold one place per entry that is not a directory, under
\* its path and in one category only; the directories list holds one place
\* per directory entry; and the lists hold nothing else.
C14_Partition ==
    epc = "done" =>
        /\ DOMAIN structure = Categories
        /\ C14_Total(Categories) = Len(archive)
        /\ \A p \in {r.str : r \in FileTable} :
            /\ Cardinality(C14_Places(p)) = Cardinality(C14_Entries(p, FALSE))
            /\ Cardinality({ci[1] : ci \in C14_Places(p)}) <= 1
            /\ Cardinality({i \in DOMAIN structure["directories"] :
                                structure["directories"][i] = p})
                    = Cardinality(C14_Entries(p, TRUE))

\* the structure of an archive with a directory, a configuration file and
\* a source file was extracted
C14_Witness ==
    /\ epc = "done"
    /\ Len(archive) = 3
    /\ {archive[i].filename : i \in DOMAIN archive}
            = {"src/", "src/package.json", "./main.py"}
    /\ structure["python_files"] = <<"main.py">>
    /\ structure["config_files"] = <<"src/package.json">>
    /\ structure["directories"] = <<"src">>

----------------------------------------------------------------------------
(* Properties of config.py (FactorySpec, ConfigSpec).                      *)

\* the chat model class of each provider
C15_Class(p) ==
    CASE p = "openai" -> "ChatOpenAI"
      [] p = "groq" -> "ChatGroq"
      [] p = "gemini" -> "ChatGoogleGenerativeAI"

\* create_llm returned a handle of the class of provider p, built from the
\* keyword arguments of that provider, and constructed nothing else
C15_Built(p) ==
    /\ created_llm.raised = ""
    /\ created_llm.llm.class = C15_Class(p)
    /\ constructed = {C15_Class(p)}
    /\ created_llm.llm.model
            = Get(kwargs, IF p = "openai" THEN "openai_model"
                          ELSE IF p = "groq" THEN "groq_model"
                          ELSE "gemini_model", "None")

\* create_llm failed and constructed no handle
C15_Refused ==
    /\ created_llm.raised = "ValueError"
    /\ created_llm.llm = "None"
    /\ constructed = {}

\* C15 as stated: create_llm returns the handle of the provider-specific
\* constructor when the name is one of openai, groq, gemini, and fails for
\* every other name without constructing a handle.
C15_FactoryRoutingExact ==
    fpc = "done" =>
        IF provider \in {"openai", "groq", "gemini"}
        THEN C15_Built(provider) ELSE C15_Refused

\* the provider a name spells, whatever the case of its letters
C15_Spells(name) ==
    CASE name \in {"openai", "OpenAI"} -> "openai"
      [] name \in {"groq", "GROQ"} -> "groq"
      [] name \in {"gemini"} -> "gemini"
      [] OTHER -> "none"

\* C15, amended: create_llm returns the handle of the provider-specific
\* constructor when the name, letter case aside, is one of openai, groq,
\* gemini, and fails for every other name without constructing a handle.
C15_FactoryRouting ==
    fpc = "done" =>
        IF C15_Spells(provider) # "none"
        THEN C15_Built(C15_Spells(provider)) ELSE C15_Refused

\* create_llm was called with the name GROQ and returned a ChatGroq handle
C15_Witness ==
    /\ fpc = "done"
    /\ provider = "GROQ"
    /\ "groq_api_key" \in DOMAIN kwargs
    /\ created_llm.raised = ""
    /\ created_llm.llm.class = "ChatGroq"

\* C16: when the directory holds no project-config.yaml, load_project_config
\* raises nothing, returns a dictionary that is the same on every call with
\* that path, and leaves the module globals as they were.
C16_DefaultWithoutFile ==
    \A i \in DOMAIN loads :
        ~ConfigFileExists(loads[i].project_dir, config_files) =>
            /\ loads[i].raised = ""
            /\ loads[i].value # None
            /\ loads[i].value.project_name = PathName(loads[i].project_dir)
            /\ loads[i].after = loads[i].before
            /\ \A j \in DOMAIN loads :
                  loads[j].project_dir = loads[i].project_dir
                      => loads[j].value = loads[i].value

\* load_project_config was called twice with the path of a directory without a
\* file, the second time after another directory's file had been loaded
C16_Witness ==
    /\ Len(loads) = 2
    /\ loads[1].project_dir = "proj"
    /\ loads[2].project_dir = "proj"
    /\ config_files["proj"].kind = "absent"
    /\ loads[1].before[1] = None
    /\ loads[2].before[1] = ChefConfig

\* C17: a failure of an LLM call propagates out of the step that made it: when
\* a summarization call made by extract_source_code raised, extract_source_code
\* did not return a result.
C17_LLMFailurePropagates ==
    epc = "done" =>
        \A i \in DOMAIN llm_calls : llm_calls[i][2] # "raised"

\* C19: in a run whose initial state carries the single archive of the
\* project configuration (source_code_zip) and no per-stage archive, the major
\* branch has that archive as source_code_zip_major and does not fall back to
\* the Terraform-only analysis.
C19_LegacyArchiveIsMajor ==
    (/\ pc \in {"running", "returned", "raised"}
     /\ "source_code_zip" \in DOMAIN initial_state
     /\ "source_code_zip_minor" \notin DOMAIN initial_state
     /\ "source_code_zip_major" \notin DOMAIN initial_state)
        => /\ channels["source_code_zip_major"] = initial_state["source_code_zip"]
           /\ "major" \notin missing_branches

\* the input fields whose file the run is set to read
C18_InputsRead ==
    (IF include_terraform THEN {"terraform_minor", "terraform_major"} ELSE {})
    \cup (IF include_terraform /\ include_knowledge THEN {"knowledge_base"} ELSE {})
    \cup {f \in {"source_code_zip_minor", "source_code_zip_major"} :
              Get(initial_state, f, "") # ""}

\* C18: a run one of whose input files (a Terraform file, the knowledge base,
\* a source archive) cannot be read makes no LLM call and returns no result.
C18_InputErrorsFailFast ==
    (pc \in {"running", "returned", "raised"}
        /\ unreadable \cap C18_InputsRead # {})
        => /\ llm_count = 0
           /\ pc # "returned"

\* C20: ADRWorkflow constructed without a project_dir raises nothing, holds the
\* project-config.yaml of the working directory as its configuration when that
\* file exists, and create() on it builds an initial state.
C20_ConstructWithoutProjectDir ==
    (cpc \in {"constructed", "created", "raised"} /\ init_args[1] = "None")
        => /\ cpc # "raised"
           /\ workflow_obj # None
           /\ (config_files[cwd].kind = "mapping"
                  => workflow_obj.project_config = ChefConfig)
           /\ (cpc = "created" => workflow_obj.initial_state # None)

----------------------------------------------------------------------------
(* Further properties of a run of the workflow (Spec).                     *)

\* the derived fields of the workflow state
C21_Derived ==
    {"architectural_context", "architecture_diff", "adr_files"}
    \cup {StructureField(b) : b \in {"minor", "major"}}
    \cup {SourceField(b) : b \in {"minor", "major"}}
    \cup {SourceDictField(b) : b \in {"minor", "major"}}
    \cup {MetadataField(b) : b \in {"minor", "major"}}
    \cup {TfAnalysisField(b) : b \in {"minor", "major"}}
    \cup {"source_analysis_minor", "source_analysis_major"}
    \cup {ImprovedField(b) : b \in {"minor", "major"}}

C22_Pairs ==
    {{"analyze_terraform_minor", "analyze_terraform_major"},
     {"analyze_source_code_minor", "analyze_source_code_major"}}

----------------------------------------------------------------------------
(* Further properties of SourceCodeExtractor (ExtractSpec, StructureSpec). *)

\* the files extract_source_code selected, code_files[:max_files]
C23_Selected == SliceTo(CodeFiles(archive), max_files)

\* C23: when the archive opens, extract_source_code returns, and a selected
\* file is in the result exactly when reading it did not fail; when the archive
\* cannot be opened, the call raises.
C23_SkipFileFailArchive ==
    epc \in {"done", "raised"} =>
        IF archive_opens
        THEN /\ epc = "done"
             /\ \A i \in DOMAIN C23_Selected :
                   C23_Selected[i] \in DOMAIN source_code
                       <=> \E j \in DOMAIN C23_Selected :
                              /\ C23_Selected[j] = C23_Selected[i]
                              /\ file_outcomes[j].read_ok
        ELSE epc = "raised"

----------------------------------------------------------------------------
(* Further properties of config.py (LLMSpec, ConfigSpec).                  *)

\* the i-th use was an access that returned a handle
C24_Returned(i) == accesses[i].op = "llm" /\ accesses[i].raised = ""

\* the object of the j-th use was reset between the i-th and the j-th use
C24_ResetBetween(i, j) ==
    \E k \in DOMAIN accesses :
        /\ i < k
        /\ k < j
        /\ accesses[k].op = "reset_llm"
        /\ accesses[k].oid = accesses[j].oid

\* the j-th use is the first on its object that returned a handle, or the
\* first since that object was reset
C24_Creates(j) ==
    \A i \in DOMAIN accesses :
        (i < j /\ C24_Returned(i) /\ accesses[i].oid = accesses[j].oid)
            => C24_ResetBetween(i, j)

\* C24: two accesses to one LLMConfig object with no reset_llm between them
\* return the same handle; the first access, and the first access after a
\* reset_llm, return a handle no earlier access returned, of the class of the
\* provider the settings name at that moment.
C24_CachedUntilReset ==
    /\ \A i \in DOMAIN accesses : \A j \in DOMAIN accesses :
            (/\ i < j
             /\ C24_Returned(i)
             /\ C24_Returned(j)
             /\ accesses[i].oid = accesses[j].oid
             /\ ~C24_ResetBetween(i, j))
                => accesses[i].id = accesses[j].id
    /\ \A j \in DOMAIN accesses :
            (C24_Returned(j) /\ C24_Creates(j))
                => /\ \A i \in DOMAIN accesses :
                        (i < j /\ C24_Returned(i))
                            => accesses[i].id # accesses[j].id
                   /\ accesses[j].class
                        = C15_Class(C15_Spells(accesses[j].provider))

\* a handle was returned twice, the object was reset, the provider switched,
\* and the next access returned a new handle of the new provider
C24_Witness ==
    /\ Len(accesses) = 4
    /\ C24_Returned(1)
    /\ C24_Returned(2)
    /\ accesses[2].id = accesses[1].id
    /\ accesses[2].class = "ChatOpenAI"
    /\ accesses[3].op = "reset_llm"
    /\ C24_Returned(4)
    /\ accesses[4].oid = accesses[1].oid
    /\ accesses[4].id # accesses[1].id
    /\ accesses[4].class = "ChatGroq"

\* C25: right after a call of load_project_config returned a configuration,
\* get_project_config() returns that configuration, whatever was loaded
\* before.
C25_GlobalIsLastLoaded ==
    \A i \in DOMAIN loads :
        loads[i].raised = ""
            => get_project_config(loads[i].after[1]) = loads[i].value

----------------------------------------------------------------------------
(* Properties of the source code steps over several runs (RunsSpec).       *)

\* C26: a run logs that both source code branches are missing only if both
\* the minor and the major archive are missing in that run.
C26_BothMissingOnlyInOwnRun ==
    both_missing_logged =>
        /\ run_state["source_code_zip_minor"] = ""
        /\ run_state["source_code_zip_major"] = ""

----------------------------------------------------------------------------
(* Properties of a whole run (Spec), continued.                            *)

\* the identity and configuration fields of the state
C27_Identity ==
    {"project_name", "timestamp", "terraform_minor", "terraform_major",
     "knowledge_base", "source_code_zip_minor", "source_code_zip_major"}

----------------------------------------------------------------------------
(* Properties of SourceCodeExtractor and of the extraction metadata,       *)
(* continued (StructureSpec, MetadataSpec).                                *)

\* C29: every file of the archive whose name is in the list of configuration
\* file names is listed under config_files.
C29_ConfigFilesByName ==
    epc = "done" =>
        \A i \in DOMAIN archive :
            (/\ ~is_dir(archive[i].filename)
             /\ PathInfo(archive[i].filename).name \in ConfigNames)
                => \E k \in DOMAIN structure["config_files"] :
                      structure["config_files"][k]
                          = PathInfo(archive[i].filename).str

\* the files of the result whose content is an LLM summary
C30_Summarized == {f \in DOMAIN source_code : source_code[f].marker # ""}

\* C30: in the metadata, summarized_files is the number of files of the
\* result whose content is an LLM summary, full_files the number of the
\* others, and total_files their sum and the number of files of the result.
C30_MetadataCounts ==
    epc = "done" =>
        /\ metadata.summarized_files = Cardinality(C30_Summarized)
        /\ metadata.full_files
                = Cardinality(DOMAIN source_code \ C30_Summarized)
        /\ metadata.total_files
                = metadata.summarized_files + metadata.full_files
        /\ metadata.total_files = Cardinality(DOMAIN source_code)

====
